---------------------------- MODULE Spec2Model ----------------------------
(***************************************************************************)
(* Model of the draft session of src/App.tsx (Fantasy Draft Board):        *)
(* the React state of App, its two history stacks, the closure that the    *)
(* hotkey effect captured, and one action per handler.                     *)
(*                                                                         *)
(* Scale.  The shipped board is 12 teams x 15 rounds with 120 s / 90 s     *)
(* clocks, a warning at 10 s and long clocks through round 4.  The model   *)
(* keeps every formula of the source and shrinks only these numbers, which *)
(* are named below; Pick.timestamp (Date.now()) and the constant seed are  *)
(* left out of the records, nothing in the handlers reads them.  The       *)
(* localStorage round trip and the Reset App button (a page reload) are    *)
(* not modelled: Init is a mount with nothing stored.                      *)
(*                                                                         *)
(* Spec runs every handler to a history of MaxUndo snapshots.  SpecDraft   *)
(* and SpecEngine run the drafting handlers alone to a deeper history,     *)
(* SpecTurnOrder runs getTeamIndexForPick alone over its inputs.           *)
(* SpecRejected runs the history handlers with the calls that return early *)
(* (Start Draft on an empty catalog, undo and redo on an empty stack).     *)
(* SpecClock runs the handlers of the clock without undo and redo.         *)
(* SpecCountdown adds to them the undo and redo buttons and the fairness   *)
(* of the interval that drives the countdown.                              *)
(***************************************************************************)
EXTENDS Integers, Sequences, FiniteSets, TLC

\* ------------------------------------------------------------------ bounds
\* teams.length; DEFAULT_TEAMS = 12 at src/App.tsx:52, scaled down
DEFAULT_TEAMS == 2
\* TOTAL_ROUNDS = 15 at src/App.tsx:53, scaled down
TOTAL_ROUNDS == 1
\* number of rows of the uploaded catalog
NumPlayers == 2
\* depth of the undo stack that the model explores (unbounded in the source)
MaxUndo == 2
\* seconds of the long clock (120 at src/App.tsx:341), scaled down
LONG_SECS == 3
\* seconds of the short clock (90 at src/App.tsx:341), scaled down
SHORT_SECS == 2
\* the warning mark (10 at src/App.tsx:240), scaled down
WARN_SECS == 1
\* last round with the long clock (4 at src/App.tsx:341), scaled down
LONG_ROUNDS == 1
\* team name inputs that the model edits (the first MaxEditSlot of the modal)
MaxEditSlot == 1
\* catalog rows and history depth of the specifications that follow one draft further
DeepPlayers == 3
MaxUndoDeep == 4
\* history depth of the clock specification: a start and the picks of one long round
MaxUndoClock == 3
\* largest teamsCount and number of rounds of the turn-order specification
MaxTeamsCount == 13
MaxRoundsTO == 3

VARIABLES
    players,        \* Player[]: sequence of [player_id, position, rk, drafted]
    teams,          \* Team[]: sequence of labels, the slot is the index
    draftStarted,
    pickIndex,
    picks,          \* Pick[]: sequence of [round, overall, teamIndex, player_id]
    paused,
    timerRemaining,
    showSetup,      \* the Setup modal is open
    filterPos,      \* the position filter of the Best Available list
    undoStack,      \* undoStack.current
    redoStack,      \* redoStack.current
    hotkeys,        \* the render whose handlers the keydown listener holds
    sound,          \* the audio element the last step played, "none" if it played none
    lastOp,         \* history: the last pick, start or undo and the state it found
    toN, toPick, toOrder   \* inputs and output of the turn-order specification

sessionVars == <<players, teams, draftStarted, pickIndex, picks, paused, timerRemaining>>
toVars == <<toN, toPick, toOrder>>
vars == <<players, teams, draftStarted, pickIndex, picks, paused, timerRemaining,
          showSetup, filterPos, undoStack, redoStack, hotkeys, sound, lastOp, toN, toPick,
          toOrder>>

\* ----------------------------------------------------------------- helpers
Labels == {"Team", "Edited"}
FilterValues == {"ALL", "RB"}

\* a turn order that forgets to reverse the odd rounds
getTeamIndexNoSnake(pickZeroBased, teamsCount) == pickZeroBased % teamsCount

getTeamIndexForPick(pickZeroBased, teamsCount) ==
    LET roundZero == pickZeroBased \div teamsCount
        idxInRound == pickZeroBased % teamsCount
        isEvenRound == (roundZero % 2 = 0)
    IN  IF isEvenRound THEN idxInRound ELSE teamsCount - 1 - idxInRound

getRoundForPick(pickZeroBased, teamsCount) == (pickZeroBased \div teamsCount) + 1

overallFromPick(pickZeroBased) == pickZeroBased + 1

\* a duration policy with the long clock in every round
resetTimerAlwaysLong(round) == LONG_SECS

\* resetTimerForRound: the seconds it passes to setTimerRemaining
resetTimerForRound(round) == IF round <= LONG_ROUNDS THEN LONG_SECS ELSE SHORT_SECS

\* the rows onUploadCSV builds from a file of n rows, sorted by rk, none drafted
Catalog(n) ==
    [i \in 1..n |->
        [player_id |-> i, position |-> IF i = 1 THEN "QB" ELSE "RB", rk |-> i,
         drafted |-> FALSE]]

\* the Best Available list: undrafted rows that pass the filter, by rk
\* (players is kept in rk order by onUploadCSV, so the sort changes nothing)
filtered(pl, fp) ==
    SelectSeq(pl, LAMBDA p : ~p.drafted /\ (fp = "ALL" \/ p.position = fp))

\* snapshot() evaluated in a render whose state is the given values
snapshotOf(pl, tm, ds, pi, pk, pa, tr) ==
    [players |-> pl, teams |-> tm, draftStarted |-> ds, pickIndex |-> pi,
     picks |-> pk, paused |-> pa, timerRemaining |-> tr]

\* snapshot() of the current render (the buttons' handlers)
snapshot == snapshotOf(players, teams, draftStarted, pickIndex, picks, paused, timerRemaining)

\* the render after this step: what a re-registered keydown listener captures
nextRender == snapshotOf(players', teams', draftStarted', pickIndex', picks', paused',
                         timerRemaining')

\* setPlayers(prev => prev.map(x => x.player_id === id ? {...x, drafted: true} : x))
markDrafted(pl, id) ==
    [i \in DOMAIN pl |-> IF pl[i].player_id = id THEN [pl[i] EXCEPT !.drafted = TRUE] ELSE pl[i]]

\* boardMatrix writes mat[pk.round - 1][pk.teamIndex]; mat has TOTAL_ROUNDS rows, so a
\* record of a later round makes the render throw and React unmounts the app
boardMatrixThrows == \E i \in DOMAIN picks : picks[i].round - 1 >= TOTAL_ROUNDS

Mounted == ~boardMatrixThrows

Front(s) == SubSeq(s, 1, Len(s) - 1)
Last(s) == s[Len(s)]

\* the history variable: which operation ran last, the state and redo depth it found
NoOp == [op |-> "other", before |-> <<>>, redoBefore |-> 0]
Did(name) == [op |-> name, before |-> snapshot, redoBefore |-> Len(redoStack)]

\* ------------------------------------------------------------------- Init
InitSession ==
    /\ players = <<>>
    /\ teams = [i \in 1..DEFAULT_TEAMS |-> "Team"]
    /\ draftStarted = FALSE
    /\ pickIndex = 0
    /\ picks = <<>>
    /\ paused = TRUE
    /\ timerRemaining = LONG_SECS
    /\ showSetup = TRUE
    /\ filterPos = "ALL"
    /\ undoStack = <<>>
    /\ redoStack = <<>>
    /\ hotkeys = snapshot
    /\ sound = "none"
    /\ lastOp = NoOp

Init == InitSession /\ toN = 1 /\ toPick = 0 /\ toOrder = <<>>

\* ------------------------------------------------------------ the handlers
\* a pushUndo that leaves the redo stack alone
pushUndoKeepRedo(r) ==
    /\ undoStack' = Append(undoStack, r)
    /\ UNCHANGED redoStack

\* pushUndo run in the render r
pushUndo(r) ==
    /\ undoStack' = Append(undoStack, r)
    /\ redoStack' = <<>>

\* the state setters of handleUndo / handleRedo
restore(s) ==
    /\ players' = s.players
    /\ teams' = s.teams
    /\ draftStarted' = s.draftStarted
    /\ pickIndex' = s.pickIndex
    /\ picks' = s.picks
    /\ paused' = s.paused
    /\ timerRemaining' = s.timerRemaining

\* a handleUndo that saves the current state for redo before it looks at the stack
handleUndoPushFirst(r) ==
    /\ Mounted
    /\ redoStack' = Append(redoStack, r)
    /\ IF undoStack = <<>>
       THEN UNCHANGED <<sessionVars, undoStack>>
       ELSE undoStack' = Front(undoStack) /\ restore(Last(undoStack))
    /\ sound' = "none"
    /\ lastOp' = Did("undo")
    /\ UNCHANGED <<showSetup, filterPos, toVars>>
    /\ hotkeys' = nextRender

\* handleUndo run in the render r (the current one for the button)
handleUndoIn(r) ==
    /\ Mounted
    /\ undoStack # <<>>
    /\ undoStack' = Front(undoStack)
    /\ redoStack' = Append(redoStack, r)
    /\ restore(Last(undoStack))
    /\ sound' = "none"
    /\ lastOp' = Did("undo")
    /\ UNCHANGED <<showSetup, filterPos, toVars>>
    /\ hotkeys' = nextRender

\* handleRedo run in the render r
handleRedoIn(r) ==
    /\ Mounted
    /\ redoStack # <<>>
    /\ redoStack' = Front(redoStack)
    /\ undoStack' = Append(undoStack, r)
    /\ restore(Last(redoStack))
    /\ sound' = "none"
    /\ lastOp' = NoOp
    /\ UNCHANGED <<showSetup, filterPos, toVars>>
    /\ hotkeys' = nextRender

\* handleUndo on an empty stack, by the button or the U key: pop() gives undefined
\* and the handler returns before it reads the render
handleUndoEmpty ==
    /\ Mounted
    /\ undoStack = <<>>
    /\ sound' = "none"
    /\ lastOp' = Did("undo-empty")
    /\ UNCHANGED <<sessionVars, showSetup, filterPos, undoStack, redoStack, hotkeys, toVars>>

\* handleRedo on an empty stack, by the button or the R key
handleRedoEmpty ==
    /\ Mounted
    /\ redoStack = <<>>
    /\ sound' = "none"
    /\ lastOp' = Did("redo-empty")
    /\ UNCHANGED <<sessionVars, showSetup, filterPos, undoStack, redoStack, hotkeys, toVars>>

\* a draftPlayer that sets the clock running again with every pick
draftPlayerUnpauses(r, p) ==
    /\ Mounted
    /\ r.draftStarted
    /\ pushUndo(r)
    /\ LET teamsCount == Len(r.teams)
           nextPick == r.pickIndex + 1
       IN  /\ picks' = Append(picks, [round |-> getRoundForPick(r.pickIndex, teamsCount),
                                      overall |-> overallFromPick(r.pickIndex),
                                      teamIndex |-> getTeamIndexForPick(r.pickIndex, teamsCount),
                                      player_id |-> p.player_id])
           /\ players' = markDrafted(players, p.player_id)
           /\ pickIndex' = nextPick
           /\ timerRemaining' = resetTimerForRound(getRoundForPick(nextPick, teamsCount))
    /\ paused' = FALSE
    /\ sound' = "pick-chime"
    /\ lastOp' = Did("pick")
    /\ UNCHANGED <<teams, draftStarted, showSetup, filterPos, toVars>>
    /\ hotkeys' = nextRender

\* draftPlayer(p) run in the render r; setPicks and setPlayers are functional updates
draftPlayerIn(r, p) ==
    /\ Mounted
    /\ r.draftStarted
    /\ pushUndo(r)
    /\ LET teamsCount == Len(r.teams)
           round == getRoundForPick(r.pickIndex, teamsCount)
           overall == overallFromPick(r.pickIndex)
           teamIndex == getTeamIndexForPick(r.pickIndex, teamsCount)
           nextPick == r.pickIndex + 1
           nextRound == getRoundForPick(nextPick, teamsCount)
       IN  /\ picks' = Append(picks, [round |-> round, overall |-> overall,
                                      teamIndex |-> teamIndex, player_id |-> p.player_id])
           /\ players' = markDrafted(players, p.player_id)
           /\ pickIndex' = nextPick
           /\ timerRemaining' = resetTimerForRound(nextRound)
    /\ sound' = "pick-chime"
    /\ lastOp' = Did("pick")
    /\ UNCHANGED <<teams, draftStarted, paused, showSetup, filterPos, toVars>>
    /\ hotkeys' = nextRender

\* the Draft button of a row of the Best Available list
DraftClick ==
    \E i \in DOMAIN filtered(players, filterPos) :
        draftPlayerIn(snapshot, filtered(players, filterPos)[i])

\* Enter: draftPlayer(filtered[0]) of the captured render
KeyEnter ==
    /\ filtered(hotkeys.players, filterPos) # <<>>
    /\ draftPlayerIn(hotkeys, filtered(hotkeys.players, filterPos)[1])

\* draftPlayer called with any row of the catalog, as a caller of the function may
DraftAnyRow == \E i \in DOMAIN players : draftPlayerIn(snapshot, players[i])

HandleUndo == handleUndoIn(snapshot)
HandleRedo == handleRedoIn(snapshot)
KeyUndo == handleUndoIn(hotkeys)
KeyRedo == handleRedoIn(hotkeys)

\* a startDraft without the validation of players.length
startDraftNoValidation ==
    /\ Mounted
    /\ showSetup
    /\ pushUndo(snapshot)
    /\ draftStarted' = TRUE
    /\ showSetup' = FALSE
    /\ pickIndex' = 0
    /\ picks' = <<>>
    /\ paused' = FALSE
    /\ timerRemaining' = resetTimerForRound(1)
    /\ sound' = "none"
    /\ lastOp' = Did("start")
    /\ UNCHANGED <<players, teams, filterPos, hotkeys, toVars>>

\* the Start Draft button of the Setup modal on a catalog with rows
startDraft ==
    /\ Mounted
    /\ showSetup
    /\ Len(players) # 0
    /\ pushUndo(snapshot)
    /\ draftStarted' = TRUE
    /\ showSetup' = FALSE
    /\ pickIndex' = 0
    /\ picks' = <<>>
    /\ paused' = FALSE
    /\ timerRemaining' = resetTimerForRound(1)
    /\ sound' = "none"
    /\ lastOp' = Did("start")
    /\ UNCHANGED <<players, teams, filterPos, hotkeys, toVars>>

\* the Start Draft button on an empty catalog: alert(...) and return
startDraftEmpty ==
    /\ Mounted
    /\ showSetup
    /\ Len(players) = 0
    /\ sound' = "none"
    /\ lastOp' = Did("start-empty")
    /\ UNCHANGED <<sessionVars, showSetup, filterPos, undoStack, redoStack, hotkeys, toVars>>

\* the Pause/Resume buttons and the P key: setPaused(p => !p)
pauseResume ==
    /\ Mounted
    /\ paused' = ~paused
    /\ sound' = "none"
    /\ lastOp' = NoOp
    /\ UNCHANGED <<players, teams, draftStarted, pickIndex, picks, timerRemaining,
                   showSetup, filterPos, undoStack, redoStack, hotkeys, toVars>>

skipTimerReset ==
    /\ Mounted
    /\ timerRemaining' = resetTimerForRound(getRoundForPick(pickIndex, Len(teams)))
    /\ sound' = "none"
    /\ lastOp' = NoOp
    /\ UNCHANGED <<players, teams, draftStarted, pickIndex, picks, paused,
                   showSetup, filterPos, undoStack, redoStack, hotkeys, toVars>>

\* a timer callback without Math.max(0, next), whose effect stops only below 0
TickNoFloor ==
    /\ Mounted
    /\ draftStarted /\ ~paused
    /\ timerRemaining >= 0
    /\ LET next == timerRemaining - 1
       IN  /\ sound' = IF next = WARN_SECS THEN "warning-beep" ELSE "none"
           /\ timerRemaining' = next
    /\ lastOp' = NoOp
    /\ UNCHANGED <<players, teams, draftStarted, pickIndex, picks, paused,
                   showSetup, filterPos, undoStack, redoStack, hotkeys, toVars>>

\* a timer callback that hands the turn to the next team when the clock runs out
TickAutoAdvance ==
    /\ Mounted
    /\ draftStarted /\ ~paused
    /\ timerRemaining > 0
    /\ LET next == timerRemaining - 1
       IN  /\ sound' = IF next = WARN_SECS THEN "warning-beep" ELSE "none"
           /\ IF next > 0
              THEN timerRemaining' = next /\ UNCHANGED pickIndex
              ELSE /\ pickIndex' = pickIndex + 1
                   /\ timerRemaining' =
                        resetTimerForRound(getRoundForPick(pickIndex + 1, Len(teams)))
    /\ lastOp' = NoOp
    /\ UNCHANGED <<players, teams, draftStarted, picks, paused,
                   showSetup, filterPos, undoStack, redoStack, hotkeys, toVars>>

\* a timer callback whose effect does not look at paused
TickIgnoresPause ==
    /\ Mounted
    /\ draftStarted
    /\ timerRemaining > 0
    /\ LET next == timerRemaining - 1
       IN  /\ sound' = IF next = WARN_SECS THEN "warning-beep" ELSE "none"
           /\ timerRemaining' = IF next > 0 THEN next ELSE 0
    /\ lastOp' = NoOp
    /\ UNCHANGED <<players, teams, draftStarted, pickIndex, picks, paused,
                   showSetup, filterPos, undoStack, redoStack, hotkeys, toVars>>

\* a timer callback that beeps at every second at or below the warning mark
TickBeepsBelowMark ==
    /\ Mounted
    /\ draftStarted /\ ~paused
    /\ timerRemaining > 0
    /\ LET next == timerRemaining - 1
       IN  /\ sound' = IF next <= WARN_SECS THEN "warning-beep" ELSE "none"
           /\ timerRemaining' = IF next > 0 THEN next ELSE 0
    /\ lastOp' = NoOp
    /\ UNCHANGED <<players, teams, draftStarted, pickIndex, picks, paused,
                   showSetup, filterPos, undoStack, redoStack, hotkeys, toVars>>

\* a timer callback whose effect creates no interval at or below the warning mark
TickStopsAtMark ==
    /\ Mounted
    /\ draftStarted /\ ~paused
    /\ timerRemaining > WARN_SECS
    /\ LET next == timerRemaining - 1
       IN  /\ sound' = IF next = WARN_SECS THEN "warning-beep" ELSE "none"
           /\ timerRemaining' = IF next > 0 THEN next ELSE 0
    /\ lastOp' = NoOp
    /\ UNCHANGED <<players, teams, draftStarted, pickIndex, picks, paused,
                   showSetup, filterPos, undoStack, redoStack, hotkeys, toVars>>

\* one callback of the interval of the timer effect
Tick ==
    /\ Mounted
    /\ draftStarted /\ ~paused
    /\ timerRemaining > 0
    /\ LET next == timerRemaining - 1
       IN  /\ sound' = IF next = WARN_SECS THEN "warning-beep" ELSE "none"
           /\ timerRemaining' = IF next > 0 THEN next ELSE 0
    /\ lastOp' = NoOp
    /\ UNCHANGED <<players, teams, draftStarted, pickIndex, picks, paused,
                   showSetup, filterPos, undoStack, redoStack, hotkeys, toVars>>

\* reader.onload of onUploadCSV for a file of n rows: setPlayers(items)
onUploadCSV(n) ==
    /\ Mounted
    /\ showSetup
    /\ players' = Catalog(n)
    /\ sound' = "none"
    /\ lastOp' = NoOp
    /\ UNCHANGED <<teams, draftStarted, pickIndex, picks, paused, timerRemaining,
                   showSetup, filterPos, undoStack, redoStack, toVars>>
    /\ hotkeys' = nextRender

\* onChange of a team name input of the Setup modal
EditTeamName ==
    /\ Mounted
    /\ showSetup
    /\ \E i \in 1..MaxEditSlot, name \in Labels :
        /\ name # teams[i]
        /\ teams' = [teams EXCEPT ![i] = name]
    /\ sound' = "none"
    /\ lastOp' = NoOp
    /\ UNCHANGED <<players, draftStarted, pickIndex, picks, paused, timerRemaining,
                   showSetup, filterPos, undoStack, redoStack, hotkeys, toVars>>

\* the Setup button and the Close button of the modal
ToggleSetup ==
    /\ Mounted
    /\ showSetup' = ~showSetup
    /\ sound' = "none"
    /\ lastOp' = NoOp
    /\ UNCHANGED <<sessionVars, filterPos, undoStack, redoStack, hotkeys, toVars>>

\* onChange of the Pos select: filtered is recomputed, the hotkey effect re-registers
SetFilterPos ==
    /\ Mounted
    /\ \E v \in FilterValues : v # filterPos /\ filterPos' = v
    /\ hotkeys' = snapshot
    /\ sound' = "none"
    /\ lastOp' = NoOp
    /\ UNCHANGED <<sessionVars, showSetup, undoStack, redoStack, toVars>>

\* ---------------------------------------------------------- specifications
\* the history depth explored: pushUndo is not offered beyond it
Bounded(depth) == Len(undoStack) < depth

\* every handler, to a history of MaxUndo snapshots
Next ==
    \/ (Bounded(MaxUndo) /\ DraftClick)
    \/ (Bounded(MaxUndo) /\ KeyEnter)
    \/ HandleUndo
    \/ HandleRedo
    \/ KeyUndo
    \/ KeyRedo
    \/ (Bounded(MaxUndo) /\ startDraft)
    \/ pauseResume
    \/ skipTimerReset
    \/ Tick
    \/ onUploadCSV(NumPlayers)
    \/ EditTeamName
    \/ ToggleSetup
    \/ SetFilterPos

Spec == Init /\ [][Next]_vars

\* the drafting handlers alone, to a history of MaxUndoDeep snapshots
NextDraft ==
    \/ (Bounded(MaxUndoDeep) /\ DraftClick)
    \/ (Bounded(MaxUndoDeep) /\ KeyEnter)
    \/ (Bounded(MaxUndoDeep) /\ startDraft)
    \/ onUploadCSV(DeepPlayers)
    \/ ToggleSetup

SpecDraft == Init /\ [][NextDraft]_vars

\* draftPlayer as a function: its callers may pass any row
NextEngine ==
    \/ (Bounded(MaxUndoDeep) /\ DraftAnyRow)
    \/ (Bounded(MaxUndoDeep) /\ startDraft)
    \/ onUploadCSV(DeepPlayers)
    \/ ToggleSetup

SpecEngine == Init /\ [][NextEngine]_vars

\* the history handlers with the calls they reject: an empty catalog (a CSV of the
\* header row alone), Start Draft on it, undo and redo on empty stacks
NextRejected ==
    \/ (Bounded(MaxUndo) /\ DraftClick)
    \/ (Bounded(MaxUndo) /\ startDraft)
    \/ startDraftEmpty
    \/ HandleUndo
    \/ HandleRedo
    \/ KeyUndo
    \/ KeyRedo
    \/ handleUndoEmpty
    \/ handleRedoEmpty
    \/ onUploadCSV(0)
    \/ onUploadCSV(NumPlayers)
    \/ ToggleSetup

SpecRejected == Init /\ [][NextRejected]_vars

\* the handlers that arm, run and pause the clock, without undo and redo
NextClock ==
    \/ (Bounded(MaxUndoClock) /\ DraftClick)
    \/ (Bounded(MaxUndoClock) /\ KeyEnter)
    \/ (Bounded(MaxUndoClock) /\ startDraft)
    \/ pauseResume
    \/ skipTimerReset
    \/ Tick
    \/ onUploadCSV(NumPlayers)
    \/ ToggleSetup

SpecClock == Init /\ [][NextClock]_vars

\* the clock with the handlers that interfere with a countdown; the interval of the
\* timer effect fires every second for as long as the effect keeps it, which is
\* weak fairness of Tick
NextCountdown ==
    \/ (Bounded(MaxUndo) /\ DraftClick)
    \/ (Bounded(MaxUndo) /\ KeyEnter)
    \/ (Bounded(MaxUndo) /\ startDraft)
    \/ HandleUndo
    \/ HandleRedo
    \/ pauseResume
    \/ skipTimerReset
    \/ Tick
    \/ onUploadCSV(NumPlayers)
    \/ ToggleSetup

SpecCountdown == Init /\ [][NextCountdown]_vars /\ WF_vars(Tick)

\* the turn order alone: one pick index after the other for each teamsCount
InitTurnOrder == InitSession /\ toN \in 1..MaxTeamsCount /\ toPick = 0 /\ toOrder = <<>>

TurnOrderStep ==
    /\ toPick < toN * MaxRoundsTO
    /\ toOrder' = Append(toOrder, getTeamIndexForPick(toPick, toN))
    /\ toPick' = toPick + 1
    /\ UNCHANGED <<sessionVars, showSetup, filterPos, undoStack, redoStack, hotkeys,
                   sound, lastOp, toN>>

SpecTurnOrder == InitTurnOrder /\ [][TurnOrderStep]_vars

\* ------------------------------------------------------------------ claims
\* the PickRecords that reference the item id
recordsOf(id) == {i \in DOMAIN picks : picks[i].player_id = id}

\* C1: in every reachable state the pick pointer equals the number of PickRecords
\* in the pick history.
C1_PointerIsHistoryLength == pickIndex = Len(picks)

\* C2: in every reachable state every item referenced by a PickRecord is flagged
\* drafted, and every item flagged drafted is referenced by exactly one PickRecord.
C2_TakenIffPickedOnce ==
    /\ \A i \in DOMAIN picks :
        \E j \in DOMAIN players :
            players[j].player_id = picks[i].player_id /\ players[j].drafted
    /\ \A j \in DOMAIN players :
        players[j].drafted => Cardinality(recordsOf(players[j].player_id)) = 1

\* C3: in every reachable state the pick pointer is at most
\* participantCount * totalRounds.
C3_PointerWithinSlots == pickIndex <= Len(teams) * TOTAL_ROUNDS

\* C4: in every reachable state no item identifier appears in more than one
\* PickRecord of the pick history.
C4_NoItemPickedTwice ==
    \A i, j \in DOMAIN picks : picks[i].player_id = picks[j].player_id => i = j

\* C5: in every reachable state the i-th PickRecord (1-based) carries overall pick
\* number i, so the numbers increase with no gaps or repeats.
C5_OverallIsPosition == \A i \in DOMAIN picks : picks[i].overall = i

\* the slots of the picks of round r (0-based), in pick order
slotsOfRound(r) == [j \in 1..toN |-> toOrder[r * toN + j]]

\* C6: for every participantCount N > 0 and round index r >= 0 the acting slots of
\* pick indices r*N .. r*N+N-1 are 0..N-1 ascending when r is even and N-1..0
\* descending when r is odd; each round uses every slot exactly once, the last
\* picker of a round picks first in the next, and with N = 12 pick index 12 acts
\* for slot 11.
C6_SnakeOrder ==
    /\ \A r \in 0..(MaxRoundsTO - 1) :
        (r + 1) * toN <= Len(toOrder) =>
            /\ slotsOfRound(r) = [j \in 1..toN |-> IF r % 2 = 0 THEN j - 1 ELSE toN - j]
            /\ {slotsOfRound(r)[j] : j \in 1..toN} = 0..(toN - 1)
            /\ (r + 1) * toN < Len(toOrder) => toOrder[(r + 1) * toN + 1] = toOrder[(r + 1) * toN]
    /\ (toN = 12 /\ Len(toOrder) >= 13) => toOrder[13] = 11

\* C6 witness: twelve teams, the second round under way, pick index 12 on slot 11
C6_Witness == toN = 12 /\ Len(toOrder) = 2 * toN /\ toOrder[13] = 11 /\ toOrder[24] = 0

\* the steps of the three kinds of history operation
UndoStep == HandleUndo \/ KeyUndo
RedoStep == HandleRedo \/ KeyRedo
MutatingStep == DraftClick \/ KeyEnter \/ startDraft

\* C7: an undo immediately followed by a redo reproduces exactly the session state
\* that existed before the undo (catalog with taken flags, participants, started
\* flag, pointer, pick history, paused flag, remaining seconds).
C7_UndoThenRedoIsIdentity ==
    [][(lastOp.op = "undo" /\ RedoStep) => nextRender = lastOp.before]_vars

\* C8: after a successful start or pick, an undo restores exactly the session state
\* that held immediately before that action, and the state the undo discards
\* becomes the top of the redo stack.
C8_UndoRevertsLastAction ==
    [][(lastOp.op \in {"pick", "start"} /\ UndoStep) =>
            /\ nextRender = lastOp.before
            /\ redoStack' = Append(redoStack, snapshot)]_vars

\* C9: history is linear: a pick or a start made after one or more undos empties
\* the redo stack, and with the redo stack empty a redo does nothing.
C9_LinearHistory ==
    /\ [][MutatingStep => redoStack' = <<>>]_vars
    /\ [](redoStack = <<>> => ~ENABLED RedoStep)

\* C9 witness: a pick or a start has just run on a state whose redo stack held
\* undone states, and the redo stack is empty
C9_Witness ==
    /\ lastOp.op \in {"pick", "start"}
    /\ lastOp.redoBefore > 0
    /\ redoStack = <<>>

PickStep == DraftClick \/ KeyEnter

\* C11: once the pointer equals participantCount * totalRounds the session is
\* complete: a further pick appends no PickRecord, marks no item taken, does not
\* advance the pointer and does not re-arm the clock.
C11_CompletePickRejected ==
    [][(pickIndex = Len(teams) * TOTAL_ROUNDS /\ PickStep) =>
            UNCHANGED <<picks, players, pickIndex, timerRemaining>>]_vars

\* C12: start is valid only from NotStarted: Start Draft on a session that is
\* already started does not reset the pointer, does not clear the pick history
\* and does not re-arm the clock.
C12_StartOnlyFromNotStarted ==
    [][(draftStarted /\ startDraft) => UNCHANGED <<pickIndex, picks, timerRemaining>>]_vars

\* a click on Start Draft, whichever branch of startDraft it takes
StartDraftClick == startDraft \/ startDraftEmpty

\* C13: start with an empty catalog fails and changes nothing: started flag,
\* pointer, history, paused flag and remaining time are unchanged, no snapshot is
\* pushed on the undo stack and the redo stack is not cleared.
C13_EmptyStartChangesNothing ==
    [][(Len(players) = 0 /\ StartDraftClick) =>
            UNCHANGED <<sessionVars, undoStack, redoStack>>]_vars

\* C13 witness: Start Draft was just rejected on an empty catalog while the redo
\* stack held an undone state
C13_Witness ==
    /\ lastOp.op = "start-empty"
    /\ Len(players) = 0
    /\ redoStack # <<>>
    /\ lastOp.before = snapshot

\* a call of handleUndo / handleRedo, by button or key, whichever branch it takes
UndoCall == HandleUndo \/ KeyUndo \/ handleUndoEmpty
RedoCall == HandleRedo \/ KeyRedo \/ handleRedoEmpty

\* C14: undo with an empty undo stack and redo with an empty redo stack are no-ops:
\* the session state and both stacks are unchanged.
C14_EmptyUndoRedoNoOp ==
    /\ [][(undoStack = <<>> /\ UndoCall) =>
            UNCHANGED <<sessionVars, undoStack, redoStack>>]_vars
    /\ [][(redoStack = <<>> /\ RedoCall) =>
            UNCHANGED <<sessionVars, undoStack, redoStack>>]_vars

\* C14 witness: an undo was just rejected on an empty undo stack while the redo
\* stack held an undone state (a started session was undone to the very beginning)
C14_Witness ==
    /\ lastOp.op = "undo-empty"
    /\ undoStack = <<>>
    /\ redoStack # <<>>
    /\ lastOp.before = snapshot

\* the handlers other than the timer callback that write timerRemaining: the three
\* that re-arm the clock, and undo / redo, which put back the clock of a snapshot
RearmStep == PickStep \/ startDraft \/ skipTimerReset
ClockWriteStep == RearmStep \/ UndoStep \/ RedoStep

C16_ExpiryNeverAdvances ==
    /\ [][Tick => UNCHANGED <<players, teams, draftStarted, pickIndex, picks, paused,
                              undoStack, redoStack>>]_vars
    /\ [][(timerRemaining = 0 /\ pickIndex' # pickIndex) =>
            (PickStep \/ UndoStep \/ RedoStep \/ startDraft)]_vars

\* C16 witness: the clock ran out during the second turn, with the pointer still on
\* that turn and one PickRecord in the history
C16_Witness ==
    /\ draftStarted /\ ~paused
    /\ timerRemaining = 0
    /\ pickIndex = 1 /\ Len(picks) = 1

\* C17: ticks take effect only while the clock is running: while the session is not
\* started or is paused no tick is due and the remaining time changes only by a
\* handler that writes the clock, and pausing or resuming leaves the remaining time
\* as it is, so that after pause and resume it has its value of the moment of the
\* pause.
C17_TicksOnlyWhileRunning ==
    /\ []((~draftStarted \/ paused) => ~ENABLED Tick)
    /\ [][((~draftStarted \/ paused) /\ timerRemaining' # timerRemaining) =>
            ClockWriteStep]_vars
    /\ [][pauseResume => timerRemaining' = timerRemaining]_vars

\* C17 witness: a started session paused in the middle of a countdown (no handler
\* stores a time between 0 and the short clock, only ticks lead there)
C17_Witness ==
    /\ draftStarted /\ paused
    /\ timerRemaining > 0 /\ timerRemaining < SHORT_SECS

\* C18: once the session has started, participant labels and slot order cannot
\* change: no step of a started session that leaves it started alters teams.
C18_ParticipantsFrozenAfterStart ==
    [][(draftStarted /\ draftStarted') => teams' = teams]_vars

\* the snake slot of pick index p with n participants, as the specification words it
snakeSlot(p, n) == IF (p \div n) % 2 = 0 THEN p % n ELSE n - 1 - (p % n)

\* C19: a successful pick made at pointer p with N participants appends exactly one
\* PickRecord with round = floor(p/N)+1, acting slot = snake slot of p, overall = p+1
\* and the chosen item, marks exactly that item taken, advances the pointer to p+1,
\* and leaves all earlier PickRecords, the participant list and the started flag
\* unchanged.
C19_PickEffects ==
    [][(PickStep /\ pickIndex < Len(teams) * TOTAL_ROUNDS) =>
            /\ Len(picks') = Len(picks) + 1
            /\ SubSeq(picks', 1, Len(picks)) = picks
            /\ Last(picks').round = (pickIndex \div Len(teams)) + 1
            /\ Last(picks').teamIndex = snakeSlot(pickIndex, Len(teams))
            /\ Last(picks').overall = pickIndex + 1
            /\ \E i \in DOMAIN players :
                /\ ~players[i].drafted
                /\ Last(picks').player_id = players[i].player_id
                /\ players' = [players EXCEPT ![i].drafted = TRUE]
            /\ pickIndex' = pickIndex + 1
            /\ UNCHANGED <<teams, draftStarted>>]_vars

\* the mutating entry points: start, pick, and a label edit before the start
MutatingEntry == startDraft \/ PickStep \/ (~draftStarted /\ EditTeamName)

\* C20: every mutating entry point (start, pick, and a participant-label edit while
\* NotStarted) pushes exactly one snapshot equal to the pre-mutation session state
\* onto the undo stack and empties the redo stack.
C20_MutationsPushSnapshot ==
    [][MutatingEntry =>
            /\ undoStack' = Append(undoStack, snapshot)
            /\ redoStack' = <<>>]_vars

\* the duration policy as the specification words it, for the round of pointer p
policySecs(p, n) == IF (p \div n) + 1 <= LONG_ROUNDS THEN LONG_SECS ELSE SHORT_SECS

\* C21: the clock is armed by round-dependent policy: immediately after a start the
\* remaining time is the long duration, and immediately after a pick that moves the
\* pointer to p' it is the long duration if round(p') is a long round and the short
\* one otherwise (so the pick at the last slot of the last long round arms the short
\* duration).
C21_ArmedByRoundPolicy ==
    /\ [][startDraft => timerRemaining' = LONG_SECS]_vars
    /\ [][PickStep => timerRemaining' = policySecs(pickIndex', Len(teams))]_vars

\* C21 witness: the pick at the last slot of the last long round has just re-armed a
\* clock that had run below the short duration, and the short duration remains
C21_Witness ==
    /\ lastOp.op = "pick"
    /\ lastOp.before.timerRemaining < SHORT_SECS
    /\ pickIndex = Len(teams) * LONG_ROUNDS
    /\ timerRemaining = SHORT_SECS

InterferingStep ==
    PickStep \/ startDraft \/ UndoStep \/ RedoStep \/ pauseResume \/ skipTimerReset

\* a session whose clock is running
Running == Mounted /\ draftStarted /\ ~paused

\* C24: liveness of the countdown: if the session is started and not paused, ticks
\* are fairly scheduled and from some point on no pick, start, undo, redo, pause or
\* timer reset occurs, the remaining time eventually reaches 0 and then stays 0
\* forever.  (Without such steps a running session stays running, so the premise is
\* that they stop; the conclusion is about the sessions that are then running.)
C24_CountdownReachesZero ==
    <>[][~InterferingStep]_vars => <>[](Running => timerRemaining = 0)

\* C24 witness: the clock of the first turn has counted down from the long
\* duration to 0 in a running session
C24_Witness ==
    /\ Running
    /\ pickIndex = 0 /\ picks = <<>>
    /\ timerRemaining = 0

\* C25: in every reachable state every PickRecord has round in 1..totalRounds and
\* acting slot in 0..participantCount-1, and no two PickRecords share the same
\* (round, acting slot) pair, so that boardMatrix has a distinct cell in range for
\* each record.
C25_RecordsFitBoard ==
    /\ \A i \in DOMAIN picks :
        /\ picks[i].round \in 1..TOTAL_ROUNDS
        /\ picks[i].teamIndex \in 0..(Len(teams) - 1)
    /\ \A i, j \in DOMAIN picks :
        (picks[i].round = picks[j].round /\ picks[i].teamIndex = picks[j].teamIndex) => i = j

\* the Draft button of the first row of the Best Available list
DraftTopClick ==
    /\ filtered(players, filterPos) # <<>>
    /\ draftPlayerIn(snapshot, filtered(players, filterPos)[1])

\* C26: the keyboard commands act on the current session state: in every reachable
\* state Enter, U and R dispatched through the key handler yield the same resulting
\* session state and undo/redo stacks as the corresponding button invoked in that
\* state: every step of a key is a step of its button, and Enter drafts whenever the
\* Draft button of the first row would.
C26_KeysActLikeButtons ==
    /\ [][KeyEnter => DraftTopClick]_vars
    /\ [][KeyUndo => HandleUndo]_vars
    /\ [][KeyRedo => HandleRedo]_vars
    /\ [](ENABLED DraftTopClick => ENABLED KeyEnter)

=============================================================================
